---- MODULE Spec2Model ----
(***************************************************************************)
(* Model of src/your_toqan_agent.py: YourToqanAgent, the weekly            *)
(* extract -> validate -> generate -> persist -> render -> deliver run.    *)
(*                                                                         *)
(* Numbers the code computes as floats (averages, percentages) are kept    *)
(* as exact ratios [num, den] and compared by cross multiplication.        *)
(* Confidences are kept in hundredths (0.92 is 92).  Log lines and the     *)
(* wall-clock fields (execution_time, timestamps) are not modelled.        *)
(***************************************************************************)
EXTENDS Integers, Sequences, FiniteSets, TLC

(* ---------------------------------------------------------------- bounds *)

\* Number of sampled listing pages after "/" in pages_to_analyze.
MaxPages == 2
\* Number of dealer slugs in dealers_to_track.
MaxDealers == 2
\* Largest number of price-pattern matches re.findall returns on one page.
MaxMatches == 2
\* Longest price_samples list handed to validate_marketplace_data directly.
MaxSamples == 11
\* Longest price_samples list handed on to generate_ai_intelligence with
\* every order of its values.
MaxPrices == 4
\* Longest dealer_data list handed on to generate_ai_intelligence with every
\* assignment of listing counts.
MaxRecords == 4

(* ------------------------------------------------------ generic helpers *)

RECURSIVE SumSeq(_)
SumSeq(s) == IF s = <<>> THEN 0 ELSE Head(s) + SumSeq(Tail(s))

Take(s, n) == SubSeq(s, 1, IF n < Len(s) THEN n ELSE Len(s))

Range(s) == {s[i] : i \in 1..Len(s)}

Rep(n, v) == [i \in 1..n |-> v]

\* All orders in which the elements of a finite set can be listed.
Perms(S) ==
    {f \in [1..Cardinality(S) -> S] : \A i, j \in 1..Cardinality(S) : f[i] = f[j] => i = j}

\* A float quotient num / den, kept exact.
Ratio(n, d) == [num |-> n, den |-> d]

\* re.search(...) returned None for a dealer listing-count pattern.
NoCount == -1

\* re.search(...) returned None for a grouped-number pattern (a real match
\* always holds at least one digit group).
NoMatch == <<>>

\* int(s.replace('.', '').replace(',', '')) of a match of
\* \d{1,3}(?:[\.,]\d{3})*, the match given as its digit groups: "20.590" is
\* <<20, 590>>.
RECURSIVE ParseGrouped(_)
ParseGrouped(m) ==
    IF Len(m) = 0 THEN 0
    ELSE ParseGrouped(SubSeq(m, 1, Len(m) - 1)) * 1000 + m[Len(m)]

\* sorted(xs): ascending, by insertion.
RECURSIVE InsertAsc(_, _)
InsertAsc(x, s) ==
    IF s = <<>> THEN <<x>>
    ELSE IF x < Head(s) THEN <<x>> \o s
    ELSE <<Head(s)>> \o InsertAsc(x, Tail(s))

RECURSIVE SortedAsc(_)
SortedAsc(s) ==
    IF s = <<>> THEN <<>>
    ELSE InsertAsc(s[Len(s)], SortedAsc(SubSeq(s, 1, Len(s) - 1)))

\* Mutant: the sort is not stable, an element goes in front of the elements
\* with an equal key.
RECURSIVE InsertDescUnstable(_, _)
InsertDescUnstable(d, s) ==
    IF s = <<>> THEN <<d>>
    ELSE IF d.listing_count >= Head(s).listing_count THEN <<d>> \o s
    ELSE <<Head(s)>> \o InsertDescUnstable(d, Tail(s))

\* sorted(ds, key=listing_count, reverse=True): descending and stable, an
\* element goes behind every element with an equal or larger key.
RECURSIVE InsertDesc(_, _)
InsertDesc(d, s) ==
    IF s = <<>> THEN <<d>>
    ELSE IF d.listing_count > Head(s).listing_count THEN <<d>> \o s
    ELSE <<Head(s)>> \o InsertDesc(d, Tail(s))

RECURSIVE SortedByCountDesc(_)
SortedByCountDesc(s) ==
    IF s = <<>> THEN <<>>
    ELSE InsertDesc(s[Len(s)], SortedByCountDesc(SubSeq(s, 1, Len(s) - 1)))

(* -------------------------------------------------------- configuration *)

\* create_your_config: dealers_to_track, in configured order.
DefaultDealers ==
    << "autodel", "autoruler", "san-auto", "wow-auto-rulate",
       "autorulateleasing", "vest-garage-auto", "corect-automobile-prahova",
       "aerocar-autodealer", "fordstore-timisoara" >>

\* create_your_config: pages_to_analyze, "/" first.
DefaultPages ==
    << "/", "/autoturisme/", "/autoturisme/?page=2",
       "/autoturisme/?page=10", "/autoturisme/?page=50" >>

\* A section the loaded configuration file does not hold.
NoSection == [missing |-> TRUE]

\* The configurations the agent is run with: the default one, cut to the
\* bounds, with and without mail recipients, and one loaded from a file that
\* lacks the "intelligence" section.
Configs ==
    { [ pages_to_analyze |-> Take(DefaultPages, MaxPages + 1),
        dealers_to_track |-> Take(DefaultDealers, MaxDealers),
        intelligence |-> i,
        recipients |-> r ] :
      i \in { [insight_confidence_threshold |-> 80, max_insights_per_report |-> 12],
              NoSection },
      r \in { <<>>, <<"your-recipient@email.com">> } }

\* The clock seconds datetime.now() is read at when a session id is made.
ClockSeconds == { "20261101_060000" }

\* The ISO week numbers datetime.now().isocalendar()[1] is read as.
IsoWeeks == { 43, 44 }

(* ------------------------------------------------------ fixed datasets *)

\* get_simulation_data
get_simulation_data ==
    [ total_listings |-> 29099,
      price_samples |->
        << 20590, 4990, 5290, 22590, 28490, 18490, 28000, 31313, 29992,
           6000, 9950, 46325, 43234, 42868, 40224, 35072, 49451, 70326,
           141840, 147684, 118936, 121745, 88217, 59900, 640588, 232078 >>,
      dealer_data |->
        << [name |-> "autorulateleasing", listing_count |-> 537],
           [name |-> "autodel", listing_count |-> 310],
           [name |-> "parc-auto-dragoliv-sascut", listing_count |-> 248],
           [name |-> "wow-auto-rulate", listing_count |-> 194],
           [name |-> "radacini-auto-rulate", listing_count |-> 187] >>,
      simulation_mode |-> TRUE ]

\* extract_marketplace_data: the data dict before anything is extracted.
EmptyData ==
    [ total_listings |-> 0, price_samples |-> <<>>, dealer_data |-> <<>>,
      simulation_mode |-> FALSE ]

(* ------------------------------------------------------------ validator *)

\* Mutant: a total of 0 costs 50 points and leaves is_valid to the final check.
ListingsCheckScoreOnly(v, total) ==
    IF total = 0 THEN
        [v EXCEPT !.errors = Append(@, "No ads found - scraping completely failed"),
                  !.data_quality_score = @ - 50]
    ELSE IF total < 20000 THEN
        [v EXCEPT !.warnings = Append(@, "Low ad count"),
                  !.data_quality_score = @ - 20]
    ELSE IF total > 40000 THEN
        [v EXCEPT !.warnings = Append(@, "Very high ad count"),
                  !.data_quality_score = @ - 20]
    ELSE v

\* validate_marketplace_data, first check: total_listings.
ListingsCheck(v, total) ==
    IF total = 0 THEN
        [v EXCEPT !.errors = Append(@, "No ads found - scraping completely failed"),
                  !.is_valid = FALSE,
                  !.data_quality_score = @ - 50]
    ELSE IF total < 20000 THEN
        [v EXCEPT !.warnings = Append(@, "Low ad count"),
                  !.data_quality_score = @ - 20]
    ELSE IF total > 40000 THEN
        [v EXCEPT !.warnings = Append(@, "Very high ad count"),
                  !.data_quality_score = @ - 20]
    ELSE v

\* Mutant: a list of exactly 10 prices still counts as few.
PricesCheckOffByOne(v, prices) ==
    IF prices = <<>> THEN
        [v EXCEPT !.warnings = Append(@, "No price samples collected"),
                  !.data_quality_score = @ - 15]
    ELSE IF Len(prices) <= 10 THEN
        [v EXCEPT !.warnings = Append(@, "Few price samples"),
                  !.data_quality_score = @ - 10]
    ELSE IF SumSeq(prices) < 1000 * Len(prices) THEN
        [v EXCEPT !.warnings = Append(@, "Suspiciously low average price"),
                  !.data_quality_score = @ - 15]
    ELSE IF SumSeq(prices) > 100000 * Len(prices) THEN
        [v EXCEPT !.warnings = Append(@, "Suspiciously high average price"),
                  !.data_quality_score = @ - 15]
    ELSE v

\* validate_marketplace_data, second check: price_samples.  avg_price is
\* sum / len; avg < 1000 is sum < 1000 * len.
PricesCheck(v, prices) ==
    IF prices = <<>> THEN
        [v EXCEPT !.warnings = Append(@, "No price samples collected"),
                  !.data_quality_score = @ - 15]
    ELSE IF Len(prices) < 10 THEN
        [v EXCEPT !.warnings = Append(@, "Few price samples"),
                  !.data_quality_score = @ - 10]
    ELSE IF SumSeq(prices) < 1000 * Len(prices) THEN
        [v EXCEPT !.warnings = Append(@, "Suspiciously low average price"),
                  !.data_quality_score = @ - 15]
    ELSE IF SumSeq(prices) > 100000 * Len(prices) THEN
        [v EXCEPT !.warnings = Append(@, "Suspiciously high average price"),
                  !.data_quality_score = @ - 15]
    ELSE v

\* validate_marketplace_data, third check: dealer_data.
DealersCheck(v, dealers) ==
    IF dealers = <<>> THEN
        [v EXCEPT !.warnings = Append(@, "No dealer data collected"),
                  !.data_quality_score = @ - 10]
    ELSE v

\* validate_marketplace_data, final summary.
FinalCheck(v) ==
    IF v.data_quality_score < 50 THEN
        [v EXCEPT !.is_valid = FALSE,
                  !.errors = Append(@, "Data quality too poor for reliable analysis")]
    ELSE v

validate_marketplace_data(data) ==
    FinalCheck(
      DealersCheck(
        PricesCheck(
          ListingsCheck(
            [is_valid |-> TRUE, warnings |-> <<>>, errors |-> <<>>,
             data_quality_score |-> 100],
            data.total_listings),
          data.price_samples),
        data.dealer_data))

(* ------------------------------------------------------------ extractor *)

\* The digit-group matches a document can hold: 999, 1.000, 4.000.000 and
\* 4.000.001 (the two ends of the realistic-price filter and their outer
\* neighbours).
PriceMatches == { <<999>>, <<1, 0>>, <<4, 0, 0>>, <<4, 0, 1>> }

\* What re.findall yields on one sampled page, over the three price patterns
\* in turn.
PageTexts == UNION { [1..n -> PriceMatches] : n \in 0..MaxMatches }

\* What the three count patterns (autoturisme, rezultate, anun) each find on
\* the homepage: "0", "500" or "25.000", or nothing.
CountMatches == { <<0>>, <<500>>, <<25, 0>> }
HomeTexts == [1..3 -> CountMatches \cup {NoMatch}]

\* What the three dealer patterns each find on a dealer page.
DealerCounts == { 0, 537 }
DealerTexts == [1..3 -> DealerCounts \cup {NoCount}]

\* Mutant: the loop over the patterns has no break, and the last pattern
\* that matches decides.
RECURSIVE FirstCountNoBreak(_, _)
FirstCountNoBreak(text, i) ==
    IF i > Len(text) THEN 0
    ELSE IF \E j \in (i + 1)..Len(text) : text[j] # NoMatch
         THEN FirstCountNoBreak(text, i + 1)
    ELSE IF text[i] # NoMatch THEN ParseGrouped(text[i])
    ELSE 0

\* extract_marketplace_data, count extraction: the first pattern that
\* matches decides, in pattern order; 0 stays when none does.
RECURSIVE FirstCount(_, _)
FirstCount(text, i) ==
    IF i > Len(text) THEN 0
    ELSE IF text[i] # NoMatch THEN ParseGrouped(text[i])
    ELSE FirstCount(text, i + 1)

\* Mutant: a count of 0 is kept.
TotalListingsAsFound(text) == FirstCount(text, 1)

\* extract_marketplace_data: a count of 0 is replaced by the fallback.
TotalListings(text) ==
    IF FirstCount(text, 1) = 0 THEN 29099 ELSE FirstCount(text, 1)

\* extract_prices_intelligently: the filter for realistic car prices.
RealisticPrice(p) == 1000 <= p /\ p <= 4000000

\* extract_prices_intelligently: every match of every pattern, cleaned,
\* filtered, and made a set.
PriceSet(matches) ==
    { p \in { ParseGrouped(matches[i]) : i \in 1..Len(matches) } : RealisticPrice(p) }

\* extract_prices_intelligently: list(set(prices)), in whatever order the
\* set iterates.
extract_prices_intelligently(matches) == Perms(PriceSet(matches))

\* extract_dealer_intelligence, listing count: first matching pattern, else 0.
RECURSIVE FirstDealerCount(_, _)
FirstDealerCount(text, i) ==
    IF i > Len(text) THEN 0
    ELSE IF text[i] # NoCount THEN text[i]
    ELSE FirstDealerCount(text, i + 1)

\* extract_dealer_intelligence: the record of a dealer page that was served.
DealerRecord(slug, text) ==
    [name |-> slug, listing_count |-> FirstDealerCount(text, 1)]

(* ------------------------------------------------------------ generator *)

\* Mutant: the fallback price lies inside the mid-range band.
PricesOrFallbackInBand(raw) ==
    IF raw.price_samples = <<>> THEN <<39999>> ELSE raw.price_samples

\* Mutant: the fallback price is added to every sample.
PricesWithFallback(raw) == raw.price_samples \o <<40000>>

\* generate_ai_intelligence: prices, with the fallback for an empty sample.
PricesOrFallback(raw) ==
    IF raw.price_samples = <<>> THEN <<40000>> ELSE raw.price_samples

\* luxury_count = len([p for p in prices if p >= 100000])
LuxuryCount(prices) == Cardinality({i \in 1..Len(prices) : prices[i] >= 100000})

\* Mutant: the band is the one the insight's text names, 30000 to 50000.
MidRangeCountAsDescribed(prices) ==
    Cardinality({i \in 1..Len(prices) : 30000 <= prices[i] /\ prices[i] < 50000})

\* mid_range_count = len([p for p in prices if 29000 <= p < 40000])
MidRangeCount(prices) ==
    Cardinality({i \in 1..Len(prices) : 29000 <= prices[i] /\ prices[i] < 40000})

\* high_impact_insights = len([i for i in final_insights if i["impact"] == "high"])
HighImpactCount(ins) == Cardinality({k \in 1..Len(ins) : ins[k].impact = "high"})

\* Mutant: the index is (len(prices) - 1) // 2.
MedianPriceLowerMiddle(prices) == SortedAsc(prices)[((Len(prices) - 1) \div 2) + 1]

\* Mutant: on an even length the two middle elements are averaged.
MedianPriceOfTwo(prices) ==
    IF Len(prices) % 2 = 0
    THEN (SortedAsc(prices)[Len(prices) \div 2]
            + SortedAsc(prices)[(Len(prices) \div 2) + 1]) \div 2
    ELSE SortedAsc(prices)[(Len(prices) \div 2) + 1]

\* sorted(prices)[len(prices) // 2]
MedianPrice(prices) == SortedAsc(prices)[(Len(prices) \div 2) + 1]

\* top_dealers = sorted(dealer_data, key=listing_count, reverse=True)[:3]
TopDealers(raw) == Take(SortedByCountDesc(raw.dealer_data), 3)

\* Rule 1: luxury_percentage > 25.
Rule1(prices) ==
    IF 100 * LuxuryCount(prices) > 25 * Len(prices)
    THEN << [type |-> "market_trend", title |-> "Premium Market Dominance",
             confidence |-> 92, impact |-> "high"] >>
    ELSE <<>>

\* Rule 2: avg_price > 100000.
Rule2(prices) ==
    IF SumSeq(prices) > 100000 * Len(prices)
    THEN << [type |-> "pricing_strategy", title |-> "High-Value Market Position",
             confidence |-> 89, impact |-> "high"] >>
    ELSE <<>>

\* Mutant: the market share is taken of total_tracked, the listings of the
\* tracked dealers together, which the code computes beside it.
Rule3ShareOfTracked(raw) ==
    IF TopDealers(raw) # <<>>
    THEN << [type |-> "competitive_intelligence", title |-> "Market Leadership",
             confidence |-> 95, impact |-> "medium",
             leader |-> TopDealers(raw)[1].name,
             market_share |->
               Ratio(TopDealers(raw)[1].listing_count * 100,
                     SumSeq([k \in DOMAIN raw.dealer_data |->
                               raw.dealer_data[k].listing_count]))] >>
    ELSE <<>>

\* Rule 3: the leader of top_dealers, when there is one.  The title is
\* "<Leader> Market Leadership"; the model keeps the leader's slug and its
\* market share beside it.
Rule3(raw) ==
    IF TopDealers(raw) # <<>>
    THEN << [type |-> "competitive_intelligence", title |-> "Market Leadership",
             confidence |-> 95, impact |-> "medium",
             leader |-> TopDealers(raw)[1].name,
             market_share |-> Ratio(TopDealers(raw)[1].listing_count * 100,
                                    raw.total_listings)] >>
    ELSE <<>>

\* Rule 4: mid_range_percentage < 25.
Rule4(prices) ==
    IF 100 * MidRangeCount(prices) < 25 * Len(prices)
    THEN << [type |-> "market_opportunity", title |-> "Mid-Range Market Gap",
             confidence |-> 83, impact |-> "medium"] >>
    ELSE <<>>

\* Mutant: the seasonal insight carries a confidence above the default
\* threshold.
Rule5Confident(week) ==
    IF week % 4 = 0
    THEN << [type |-> "prediction", title |-> "Seasonal Market Adjustment Expected",
             confidence |-> 86, impact |-> "low"] >>
    ELSE <<>>

\* Rule 5: current ISO week divisible by 4.
Rule5(week) ==
    IF week % 4 = 0
    THEN << [type |-> "prediction", title |-> "Seasonal Market Adjustment Expected",
             confidence |-> 76, impact |-> "low"] >>
    ELSE <<>>

\* The candidate insights, in the order the rules are evaluated.
Candidates(raw, week) ==
    Rule1(PricesOrFallback(raw)) \o Rule2(PricesOrFallback(raw)) \o Rule3(raw)
      \o Rule4(PricesOrFallback(raw)) \o Rule5(week)

\* Mutant: the list is cut to max insights first and filtered afterwards.
FinalInsightsCutFirst(raw, week, cfg) ==
    SelectSeq(Take(Candidates(raw, week), cfg.intelligence.max_insights_per_report),
              LAMBDA i : i.confidence >= cfg.intelligence.insight_confidence_threshold)

\* Filter by confidence threshold, then limit to max insights.
FinalInsights(raw, week, cfg) ==
    Take(SelectSeq(Candidates(raw, week),
                   LAMBDA i : i.confidence >= cfg.intelligence.insight_confidence_threshold),
         cfg.intelligence.max_insights_per_report)

ConfidenceSum(ins) == SumSeq([k \in 1..Len(ins) |-> ins[k].confidence])

\* generate_ai_intelligence: the intelligence dict.
generate_ai_intelligence(raw, week, sid, cfg) ==
    LET prices == PricesOrFallback(raw)
        final  == FinalInsights(raw, week, cfg)
        luxury == Ratio(100 * LuxuryCount(prices), Len(prices))
    IN  [ session_id |-> sid,
          mode |-> "SIMULATION",
          marketplace_data |->
            [ total_listings |-> raw.total_listings,
              pricing |->
                [ average |-> Ratio(SumSeq(prices), Len(prices)),
                  median |-> MedianPrice(prices),
                  luxury_percentage |-> luxury,
                  sample_size |-> Len(prices) ],
              dominant_segment |->
                IF luxury.num > 30 * luxury.den THEN "luxury" ELSE "premium" ],
          dealer_data |-> Take(TopDealers(raw), 5),
          ai_insights |-> final,
          intelligence_summary |->
            [ insights_generated |-> Len(final),
              confidence_average |->
                IF final # <<>> THEN Ratio(ConfidenceSum(final), Len(final))
                ELSE Ratio(0, 1),
              high_impact_insights |-> HighImpactCount(final) ] ]

(* ------------------------------------------------------------ persistence *)

\* setup_database: the four tables, empty.
EmptyDb ==
    [ intelligence_sessions |-> <<>>, marketplace_intelligence |-> <<>>,
      dealer_intelligence |-> <<>>, ai_insights |-> <<>> ]

\* save_intelligence: the rows of one session, in insert order.
SessionRows(intel) ==
    << [ table |-> "intelligence_sessions",
         row |-> [ session_id |-> intel.session_id,
                   insights_generated |-> intel.intelligence_summary.insights_generated,
                   data_points |-> intel.marketplace_data.pricing.sample_size ] ],
       [ table |-> "marketplace_intelligence",
         row |-> [ session_id |-> intel.session_id,
                   total_listings |-> intel.marketplace_data.total_listings,
                   median_price |-> intel.marketplace_data.pricing.median ] ] >>
    \o [ k \in 1..Len(intel.dealer_data) |->
         [ table |-> "dealer_intelligence",
           row |-> [ session_id |-> intel.session_id,
                     dealer_name |-> intel.dealer_data[k].name,
                     listing_count |-> intel.dealer_data[k].listing_count ] ] ]
    \o [ k \in 1..Len(intel.ai_insights) |->
         [ table |-> "ai_insights",
           row |-> [ session_id |-> intel.session_id,
                     title |-> intel.ai_insights[k].title,
                     confidence_score |-> intel.ai_insights[k].confidence ] ] ]

\* conn.execute(INSERT ...) of the first n rows, in order.
RECURSIVE InsertRows(_, _, _)
InsertRows(d, rows, n) ==
    IF n = 0 THEN d
    ELSE LET before == InsertRows(d, rows, n - 1)
         IN  [before EXCEPT ![rows[n].table] = Append(@, rows[n].row)]

\* session_id TEXT UNIQUE: the sessions table holds a row with this id.
Duplicate(d, session_id) ==
    \E k \in DOMAIN d.intelligence_sessions :
        d.intelligence_sessions[k].session_id = session_id

\* save_intelligence: the statements that can raise; 0 is none of them.  The
\* first insert always raises when the session_id is already in the table.
FailPoints(d, rows) ==
    IF Duplicate(d, rows[1].row.session_id) THEN {1} ELSE 0..(Len(rows) + 1)

\* Mutant: the rows inserted before the failure stay in the store.
RollbackKeepsPartial(before, partial) == partial

\* conn.rollback(): the store as it was before the transaction.
Rollback(before, partial) == before

\* generate_intelligence_report: the document, a function of the session.
generate_intelligence_report(intel) ==
    [ session_id |-> intel.session_id,
      total_listings |-> intel.marketplace_data.total_listings,
      insights |-> [k \in 1..Len(intel.ai_insights) |-> intel.ai_insights[k].title],
      dealers |-> [k \in 1..Len(intel.dealer_data) |-> intel.dealer_data[k].name] ]

(* ---------------------------------------------------------------- state *)

VARIABLES
    pc,                  \* where the run stands
    config,              \* self.config
    raw_data,            \* the extraction being built, then handed on
    page_idx,            \* position in pages_to_analyze
    dealer_idx,          \* position in dealers_to_track
    validation_results,  \* validate_marketplace_data's result
    intelligence,        \* generate_ai_intelligence's result
    report_html,         \* generate_intelligence_report's result
    db,                  \* the sqlite tables
    files,               \* the report files written
    outbox,              \* the messages the SMTP server accepted
    result,              \* what run_weekly_intelligence returned
    outcome,             \* "running", "returned" or "raised"
    stages,              \* the stages started, in order
    failures,            \* the stages that failed
    fetches,             \* the document fetches made, each with its outcome
    observe,             \* ghost: whether this run records what its stages read
    gen_locals,          \* ghost: the candidate insights and the week of the last
                         \* generate_ai_intelligence call
    document,            \* ghost: the text the extractor's last fetch served, if any
    peer                 \* a second run of the agent on the same database file

vars == << pc, config, raw_data, page_idx, dealer_idx, validation_results,
           intelligence, report_html, db, files, outbox, result, outcome,
           stages, failures, fetches, observe, gen_locals, document, peer >>

\* A value not yet assigned.
Unset == [unset |-> TRUE]

\* make_intelligent_request: the fetch as the run's log of fetches keeps it.
\* time.sleep(2) follows requests.get, so it runs when the get returned a
\* response, whatever its status, and is skipped when the get raised.
make_intelligent_request(url, response) ==
    [url |-> url, outcome |-> response, slept |-> response # "error"]

\* No second run is using the database file.
NoPeer == [pc |-> "absent", session_id |-> Unset, outcome |-> "none"]

Init ==
    /\ pc = "home"
    /\ config \in Configs
    /\ raw_data = EmptyData
    /\ page_idx = 1
    /\ dealer_idx = 1
    /\ validation_results = Unset
    /\ intelligence = Unset
    /\ report_html = Unset
    /\ db = EmptyDb
    /\ files = {}
    /\ outbox = <<>>
    /\ result = Unset
    /\ outcome = "running"
    /\ stages = <<>>
    /\ failures = {}
    /\ fetches = <<>>
    /\ observe = FALSE
    /\ gen_locals = Unset
    /\ document = Unset
    /\ peer = NoPeer

(* ------------------------------------------------------------ extraction *)

\* run_weekly_intelligence's except branch: the failure result.
FailureResult(error) == [success |-> FALSE, error |-> error, mode |-> "SIMULATION"]

\* Mutant: a homepage fetch that raises is not caught in
\* extract_marketplace_data and ends the run in run_weekly_intelligence.
ExtractHomeUncaught ==
    /\ pc = "home"
    /\ stages' = Append(stages, "EXTRACT")
    /\ \E served \in BOOLEAN, text \in HomeTexts :
         IF served
         THEN /\ raw_data' = [raw_data EXCEPT !.total_listings = TotalListings(text)]
              /\ fetches' = Append(fetches, make_intelligent_request("/", "ok"))
              /\ document' = IF observe THEN text ELSE document
              /\ pc' = "pages"
              /\ UNCHANGED << result, outcome, failures >>
         ELSE /\ raw_data' = raw_data
              /\ document' = document
              /\ fetches' = Append(fetches, make_intelligent_request("/", "error"))
              /\ pc' = "done"
              /\ outcome' = "returned"
              /\ result' = FailureResult("requests.RequestException")
              /\ failures' = failures \cup {"EXTRACT"}
    /\ UNCHANGED << peer, observe, gen_locals,
                    config, page_idx, dealer_idx, validation_results, intelligence,
                    report_html, db, files, outbox >>

\* extract_marketplace_data, the homepage: the fetch raises, and the outer
\* except returns the simulation data; or it is served, and the count is
\* taken from its text.
ExtractHome ==
    /\ pc = "home"
    /\ stages' = Append(stages, "EXTRACT")
    /\ \E served \in BOOLEAN, text \in HomeTexts :
         IF served
         THEN /\ raw_data' = [raw_data EXCEPT !.total_listings = TotalListings(text)]
              /\ fetches' = Append(fetches, make_intelligent_request("/", "ok"))
              /\ document' = IF observe THEN text ELSE document
              /\ pc' = "pages"
         ELSE /\ raw_data' = get_simulation_data
              /\ document' = document
              /\ fetches' = Append(fetches, make_intelligent_request("/", "error"))
              /\ pc' = "validate"
    /\ UNCHANGED << peer, observe, gen_locals,
                    config, page_idx, dealer_idx, validation_results, intelligence,
                    report_html, db, files, outbox, result, outcome, failures >>

\* Mutant: the fetch of a sampled page stands outside the inner try, and a
\* failure reaches the outer except, which returns the simulation data.
ExtractPageUncaught ==
    /\ pc = "pages"
    /\ page_idx <= Len(config.pages_to_analyze)
    /\ page_idx' = page_idx + 1
    /\ IF config.pages_to_analyze[page_idx] = "/"
       THEN /\ pc' = IF page_idx < Len(config.pages_to_analyze) THEN "pages"
                     ELSE IF dealer_idx <= Len(config.dealers_to_track) THEN "dealers"
                     ELSE "validate"
            /\ UNCHANGED << raw_data, fetches, document >>
       ELSE \E served \in BOOLEAN, text \in PageTexts :
              IF served
              THEN /\ \E prices \in extract_prices_intelligently(text) :
                        raw_data' = [raw_data EXCEPT !.price_samples = @ \o prices]
                   /\ fetches' = Append(fetches,
                          make_intelligent_request(config.pages_to_analyze[page_idx], "ok"))
                   /\ document' = IF observe THEN text ELSE document
                   /\ pc' = IF page_idx < Len(config.pages_to_analyze) THEN "pages"
                            ELSE IF dealer_idx <= Len(config.dealers_to_track)
                                 THEN "dealers"
                            ELSE "validate"
              ELSE /\ raw_data' = get_simulation_data
                   /\ fetches' = Append(fetches,
                          make_intelligent_request(config.pages_to_analyze[page_idx], "error"))
                   /\ document' = Unset
                   /\ pc' = "validate"
    /\ UNCHANGED << peer, observe, gen_locals,
                    config, dealer_idx, validation_results, intelligence,
                    report_html, db, files, outbox, result, outcome, stages, failures >>

\* extract_marketplace_data, one turn of the loop over pages_to_analyze:
\* "/" is skipped; a page that fails is skipped with a warning; the prices of
\* a page that is served are appended.  After the last page the loop over
\* dealers_to_track starts.
ExtractPage ==
    /\ pc = "pages"
    /\ page_idx <= Len(config.pages_to_analyze)
    /\ page_idx' = page_idx + 1
    /\ pc' = IF page_idx < Len(config.pages_to_analyze) THEN "pages"
             ELSE IF dealer_idx <= Len(config.dealers_to_track) THEN "dealers"
             ELSE "validate"
    /\ IF config.pages_to_analyze[page_idx] = "/"
       THEN UNCHANGED << raw_data, fetches, document >>
       ELSE \E served \in BOOLEAN, text \in PageTexts :
              IF served
              THEN /\ \E prices \in extract_prices_intelligently(text) :
                        raw_data' = [raw_data EXCEPT !.price_samples = @ \o prices]
                   /\ fetches' = Append(fetches,
                          make_intelligent_request(config.pages_to_analyze[page_idx], "ok"))
                   /\ document' = IF observe THEN text ELSE document
              ELSE /\ raw_data' = raw_data
                   /\ fetches' = Append(fetches,
                          make_intelligent_request(config.pages_to_analyze[page_idx], "error"))
                   /\ document' = Unset
    /\ UNCHANGED << peer, observe, gen_locals,
                    config, dealer_idx, validation_results, intelligence,
                    report_html, db, files, outbox, result, outcome, stages, failures >>

\* Mutant: a dealer page that is not found gives a record with no listings.
DealerNotFoundAsZero(slug, response, text) ==
    IF response = "404" THEN << [name |-> slug, listing_count |-> 0] >>
    ELSE IF response = "error" THEN <<>>
    ELSE << DealerRecord(slug, text) >>

\* extract_dealer_intelligence: None on 404 and on an error, else the record.
extract_dealer_intelligence(slug, response, text) ==
    IF response = "404" THEN <<>>
    ELSE IF response = "error" THEN <<>>
    ELSE << DealerRecord(slug, text) >>

\* extract_marketplace_data, one turn of the loop over dealers_to_track; after
\* the last dealer the data collected is returned.
ExtractDealer ==
    /\ pc = "dealers"
    /\ dealer_idx <= Len(config.dealers_to_track)
    /\ dealer_idx' = dealer_idx + 1
    /\ pc' = IF dealer_idx < Len(config.dealers_to_track) THEN "dealers" ELSE "validate"
    /\ \E response \in {"ok", "404", "error"}, text \in DealerTexts :
         /\ raw_data' = [raw_data EXCEPT !.dealer_data =
               @ \o extract_dealer_intelligence(config.dealers_to_track[dealer_idx],
                                                response, text)]
         /\ fetches' = Append(fetches,
               make_intelligent_request(config.dealers_to_track[dealer_idx], response))
         /\ document' = IF observe /\ response = "ok" THEN text ELSE Unset
    /\ UNCHANGED << peer, observe, gen_locals,
                    config, page_idx, validation_results, intelligence,
                    report_html, db, files, outbox, result, outcome, stages, failures >>

(* ---------------------------------------------------------- orchestrator *)

\* run_weekly_intelligence: the result returned when validation fails.
ValidationFailureResult(v) ==
    [success |-> FALSE, error |-> "Data validation failed", validation_results |-> v]

\* run_weekly_intelligence: the result returned at the end of the try block.
SuccessResult(intel, cfg) ==
    [ success |-> TRUE,
      session_id |-> intel.session_id,
      mode |-> "SIMULATION",
      insights_generated |-> intel.intelligence_summary.insights_generated,
      confidence_average |-> intel.intelligence_summary.confidence_average,
      high_impact_insights |-> intel.intelligence_summary.high_impact_insights,
      report_saved |-> intel.session_id,
      email_sent |-> Len(cfg.recipients) > 0 ]

\* Mutant: the except branch logs the error and raises it again.
OnExceptionReraise(error) == [outcome |-> "raised", result |-> Unset]

\* run_weekly_intelligence, "except Exception as e": the error is logged and
\* a failure result is returned.
OnException(error) == [outcome |-> "returned", result |-> FailureResult(error)]

\* An exception raised by the stage reaches the except branch, which ends
\* the run.
Caught(stage, error) ==
    /\ pc' = "done"
    /\ outcome' = OnException(error).outcome
    /\ result' = OnException(error).result
    /\ failures' = failures \cup {stage}

\* Mutant: an invalid extraction is logged and the run goes on.
ValidateNoAbort ==
    /\ pc = "validate"
    /\ stages' = Append(stages, "VALIDATE")
    /\ validation_results' = validate_marketplace_data(raw_data)
    /\ pc' = "generate"
    /\ UNCHANGED << result, outcome >>
    /\ document' = Unset
    /\ UNCHANGED << peer, observe, gen_locals,
                    config, raw_data, page_idx, dealer_idx, intelligence, report_html,
                    db, files, outbox, failures, fetches >>

\* run_weekly_intelligence: validate the extraction; an invalid one ends the
\* run.  The extractor has returned, and its last document is gone.
Validate ==
    /\ pc = "validate"
    /\ stages' = Append(stages, "VALIDATE")
    /\ validation_results' = validate_marketplace_data(raw_data)
    /\ IF validation_results'.is_valid
       THEN /\ pc' = "generate"
            /\ UNCHANGED << result, outcome >>
       ELSE /\ pc' = "done"
            /\ result' = ValidationFailureResult(validation_results')
            /\ outcome' = "returned"
    /\ document' = Unset
    /\ UNCHANGED << peer, observe, gen_locals,
                    config, raw_data, page_idx, dealer_idx, intelligence, report_html,
                    db, files, outbox, failures, fetches >>

\* run_weekly_intelligence: generate the intelligence.  Reading the
\* thresholds of a configuration without the section raises KeyError.
Generate ==
    /\ pc = "generate"
    /\ stages' = Append(stages, "GENERATE")
    /\ IF config.intelligence = NoSection
       THEN /\ Caught("GENERATE", "KeyError: 'intelligence'")
            /\ UNCHANGED << intelligence, gen_locals >>
       ELSE /\ \E now \in ClockSeconds, week \in IsoWeeks :
                 /\ intelligence' =
                      generate_ai_intelligence(raw_data, week, <<"intel", now>>, config)
                 /\ gen_locals' =
                      IF observe
                      THEN [insights |-> Candidates(raw_data, week),
                            current_week |-> week]
                      ELSE gen_locals
            /\ pc' = "persist"
            /\ UNCHANGED << result, outcome, failures >>
    /\ UNCHANGED << peer, observe, document,
                    config, raw_data, page_idx, dealer_idx, validation_results,
                    report_html, db, files, outbox, fetches >>

\* Mutant: the failure is logged and rolled back, and not raised again.
SaveOutcomeSwallowed(failed) == "returned"

\* save_intelligence, "except ... raise": an insert or the commit that fails
\* is logged, rolled back and raised again.
SaveOutcome(failed) == IF failed THEN "raised" ELSE "returned"

\* Mutant: the report is generated before the session is saved.
SaveAfterRender ==
    /\ pc = "persist"
    /\ stages' = Append(stages, "RENDER")
    /\ report_html' = generate_intelligence_report(intelligence)
    /\ pc' = "write"
    /\ UNCHANGED << peer, observe, gen_locals, document,
                    config, raw_data, page_idx, dealer_idx, validation_results,
                    intelligence, db, files, outbox, result, outcome, failures, fetches >>

\* run_weekly_intelligence: save the session.  fail_at = 0: every insert and
\* the commit succeed; fail_at = k: the k-th statement (the commit is the
\* last) raises.  The inserts and the commit are one sqlite transaction, with
\* no await between them.
Save ==
    /\ pc = "persist"
    /\ stages' = Append(stages, "PERSIST")
    /\ LET rows == SessionRows(intelligence)
       IN  \E fail_at \in FailPoints(db, rows) :
             /\ db' = IF fail_at = 0 THEN InsertRows(db, rows, Len(rows))
                      ELSE Rollback(db, InsertRows(db, rows, fail_at - 1))
             /\ IF SaveOutcome(fail_at # 0) = "raised"
                THEN Caught("PERSIST", "sqlite3.Error")
                ELSE /\ pc' = "render"
                     /\ failures' = IF fail_at # 0 THEN failures \cup {"PERSIST"}
                                    ELSE failures
                     /\ UNCHANGED << result, outcome >>
    /\ UNCHANGED << peer, observe, gen_locals, document,
                    config, raw_data, page_idx, dealer_idx, validation_results,
                    intelligence, report_html, files, outbox, fetches >>

\* run_weekly_intelligence: generate the report.
Render ==
    /\ pc = "render"
    /\ stages' = Append(stages, "RENDER")
    /\ report_html' = generate_intelligence_report(intelligence)
    /\ pc' = "write"
    /\ UNCHANGED << peer, observe, gen_locals, document,
                    config, raw_data, page_idx, dealer_idx, validation_results,
                    intelligence, db, files, outbox, result, outcome, failures, fetches >>

\* run_weekly_intelligence: save the report file; makedirs, open or write may
\* raise OSError.
WriteReport ==
    /\ pc = "write"
    /\ \E written \in BOOLEAN :
         IF written
         THEN /\ files' = files \cup
                    {[name |-> intelligence.session_id, content |-> report_html]}
              /\ pc' = "deliver"
              /\ UNCHANGED << result, outcome, failures >>
         ELSE /\ Caught("RENDER", "OSError")
              /\ UNCHANGED files
    /\ UNCHANGED << peer, observe, gen_locals, document,
                    config, raw_data, page_idx, dealer_idx, validation_results,
                    intelligence, report_html, db, outbox, stages, fetches >>

\* Mutant: a failed send is not caught.
SendOutcomeUncaught(accepted) == IF accepted THEN "returned" ELSE "raised"

\* send_intelligence_report, "except Exception as e": a failed send is logged
\* and the function returns.
SendOutcome(accepted) == "returned"

\* run_weekly_intelligence: send the report, then build and return the
\* result.  Without recipients nothing is sent.
Send ==
    /\ pc = "deliver"
    /\ stages' = Append(stages, "DELIVER")
    /\ IF config.recipients = <<>>
       THEN /\ pc' = "done"
            /\ outcome' = "returned"
            /\ result' = SuccessResult(intelligence, config)
            /\ UNCHANGED << outbox, failures >>
       ELSE \E accepted \in BOOLEAN :
              /\ outbox' = IF accepted
                           THEN Append(outbox, [to |-> config.recipients,
                                                html |-> report_html])
                           ELSE outbox
              /\ IF SendOutcome(accepted) = "raised"
                 THEN Caught("DELIVER", "smtplib.SMTPException")
                 ELSE /\ pc' = "done"
                      /\ outcome' = "returned"
                      /\ result' = SuccessResult(intelligence, config)
                      /\ failures' = IF accepted THEN failures
                                     ELSE failures \cup {"DELIVER"}
    /\ UNCHANGED << peer, observe, gen_locals, document,
                    config, raw_data, page_idx, dealer_idx, validation_results,
                    intelligence, report_html, db, files, fetches >>

Next ==
    \/ ExtractHome
    \/ ExtractPage
    \/ ExtractDealer
    \/ Validate
    \/ Generate
    \/ Save
    \/ Render
    \/ WriteReport
    \/ Send

Spec == Init /\ [][Next]_vars

(* ------------------------------------------- runs on a supplied extraction *)

\* The extractions validate_marketplace_data and the stages after it are also
\* run on directly, as when extract_marketplace_data is replaced by a stub:
\* listing totals around every threshold, price lists of every length up to
\* MaxSamples with means around both price thresholds, with and without a
\* dealer record.
SuppliedTotals == { -1, 0, 1, 19999, 20000, 40000, 40001 }

SuppliedPrices ==
    { <<>> } \cup
    { Rep(n - 1, v) \o <<w>> :
        n \in 1..MaxSamples, v \in {999, 1000, 100000, 100001},
        w \in {999, 1000, 100000, 100001} }

SuppliedDealers == { <<>>, << [name |-> "autodel", listing_count |-> 310] >> }

SuppliedData ==
    { [ total_listings |-> t, price_samples |-> p, dealer_data |-> d,
        simulation_mode |-> FALSE ] :
      t \in SuppliedTotals, p \in SuppliedPrices, d \in SuppliedDealers }

\* The run stands behind an extraction that was supplied.
StubInit ==
    /\ pc = "validate"
    /\ config \in Configs
    /\ raw_data \in SuppliedData
    /\ page_idx = 1
    /\ dealer_idx = 1
    /\ validation_results = Unset
    /\ intelligence = Unset
    /\ report_html = Unset
    /\ db = EmptyDb
    /\ files = {}
    /\ outbox = <<>>
    /\ result = Unset
    /\ outcome = "running"
    /\ stages = <<"EXTRACT">>
    /\ failures = {}
    /\ fetches = <<>>
    /\ observe = FALSE
    /\ gen_locals = Unset
    /\ document = Unset
    /\ peer = NoPeer

\* Runs with the live extractor together with runs on a supplied extraction.
StubSpec == (Init \/ StubInit) /\ [][Next]_vars

(* ------------------------------------------- runs with documents recorded *)

\* create_your_config: the default configuration, cut to the bounds.
DefaultConfig ==
    [ pages_to_analyze |-> Take(DefaultPages, MaxPages + 1),
      dealers_to_track |-> Take(DefaultDealers, MaxDealers),
      intelligence |-> [insight_confidence_threshold |-> 80,
                        max_insights_per_report |-> 12],
      recipients |-> <<"your-recipient@email.com">> ]

\* A run of the agent under its default configuration in which every
\* document served to the extractor is kept beside the data extracted from it.
ObservedInit ==
    /\ pc = "home"
    /\ config = DefaultConfig
    /\ raw_data = EmptyData
    /\ page_idx = 1
    /\ dealer_idx = 1
    /\ validation_results = Unset
    /\ intelligence = Unset
    /\ report_html = Unset
    /\ db = EmptyDb
    /\ files = {}
    /\ outbox = <<>>
    /\ result = Unset
    /\ outcome = "running"
    /\ stages = <<>>
    /\ failures = {}
    /\ fetches = <<>>
    /\ observe = TRUE
    /\ gen_locals = Unset
    /\ document = Unset
    /\ peer = NoPeer

ObservedSpec == ObservedInit /\ [][Next]_vars

(* --------------------------------- observed runs on a supplied extraction *)

\* Prices around every threshold of generate_ai_intelligence: the mid-range
\* band 29000 <= p < 40000, the luxury mark 100000, and one price large
\* enough to lift an average over 100000.
PriceValues == { 28999, 29000, 39999, 40000, 99999, 100000, 400000 }

\* price_samples lists: every list of up to MaxPrices of these values, in
\* every order, and the lists that hold 1, 2, 3 and 4 once each.
PriceLists ==
    UNION { [1..n -> PriceValues] : n \in 0..MaxPrices } \cup Perms({1, 2, 3, 4})

\* dealer_data lists: the first dealers tracked, in configured order, with
\* every assignment of two listing counts, so that ties occur.
DealerLists ==
    UNION { { [k \in 1..n |-> [name |-> DefaultDealers[k], listing_count |-> c[k]]] :
                c \in [1..n -> {194, 537}] } : n \in 0..MaxRecords }

\* price_samples lists that make rules 1, 2 and 4 fire in different
\* combinations: none (the fallback), luxury only, mid-range only, and a
\* high average with few luxury prices.
RuleMixes ==
    { <<>>, <<100000, 400000>>, <<29000, 39999>>,
      <<400000, 28999, 28999, 28999>> }

\* Confidence thresholds, in hundredths, between the confidences of the rules.
Thresholds == { 0, 76, 77, 90, 96 }

\* Values of max_insights_per_report below and above the number of rules.
InsightLimits == { 0, 1, 2, 12 }

\* The default configuration with the two thresholds of its "intelligence"
\* section set.
ConfigWith(threshold, limit) ==
    [DefaultConfig EXCEPT !.intelligence =
        [insight_confidence_threshold |-> threshold, max_insights_per_report |-> limit]]

\* An extraction with 29099 listings.
Extraction(prices, dealers) ==
    [ total_listings |-> 29099, price_samples |-> prices, dealer_data |-> dealers,
      simulation_mode |-> FALSE ]

\* The extractions and configurations the generator is run on: every price
\* list under a configuration that filters nothing, every dealer list under
\* the default configuration, and every pair of thresholds on a few
\* extractions.
GenCases ==
    { [raw |-> Extraction(p, << [name |-> "autodel", listing_count |-> 310] >>),
       cfg |-> ConfigWith(0, 12)] : p \in PriceLists }
    \cup { [raw |-> Extraction(<<>>, d), cfg |-> DefaultConfig] : d \in DealerLists }
    \cup { [raw |-> Extraction(p, d), cfg |-> ConfigWith(t, m)] :
             p \in RuleMixes, d \in SuppliedDealers,
             t \in Thresholds, m \in InsightLimits }

\* The run stands behind an extraction that was supplied, and records what
\* generate_ai_intelligence works with.
GenInit ==
    /\ pc = "validate"
    /\ \E c \in GenCases : raw_data = c.raw /\ config = c.cfg
    /\ page_idx = 1
    /\ dealer_idx = 1
    /\ validation_results = Unset
    /\ intelligence = Unset
    /\ report_html = Unset
    /\ db = EmptyDb
    /\ files = {}
    /\ outbox = <<>>
    /\ result = Unset
    /\ outcome = "running"
    /\ stages = <<"EXTRACT">>
    /\ failures = {}
    /\ fetches = <<>>
    /\ observe = TRUE
    /\ gen_locals = Unset
    /\ document = Unset
    /\ peer = NoPeer

\* Runs with the live extractor together with observed runs on a supplied
\* extraction.
GenSpec == (Init \/ GenInit) /\ [][Next]_vars

(* ----------------------------------------- two runs on one database file *)

\* The seconds the second run's clock can show when it names its session.
PeerSeconds == ClockSeconds \cup { "20261101_060001" }

\* The session of the second run: its homepage fetch failed, so it works on
\* the simulation dataset, under the default configuration.
PeerIntelligence(session_id) ==
    generate_ai_intelligence(get_simulation_data, 43, session_id, DefaultConfig)

\* generate_ai_intelligence of the second run: the session_id is the clock's
\* second.
PeerGenerate ==
    /\ peer.pc = "generate"
    /\ \E now \in PeerSeconds :
         peer' = [pc |-> "persist", session_id |-> <<"intel", now>>,
                  outcome |-> "running"]
    /\ UNCHANGED << pc, config, raw_data, page_idx, dealer_idx, validation_results,
                    intelligence, report_html, db, files, outbox, result, outcome,
                    stages, failures, fetches, observe, gen_locals, document >>

\* save_intelligence of the second run, on the same tables.
PeerSave ==
    /\ peer.pc = "persist"
    /\ LET rows == SessionRows(PeerIntelligence(peer.session_id))
       IN  \E fail_at \in FailPoints(db, rows) :
             /\ db' = IF fail_at = 0 THEN InsertRows(db, rows, Len(rows))
                      ELSE Rollback(db, InsertRows(db, rows, fail_at - 1))
             /\ peer' = [peer EXCEPT !.pc = "done",
                                     !.outcome = IF fail_at = 0 THEN "saved"
                                                 ELSE SaveOutcome(TRUE)]
    /\ UNCHANGED << pc, config, raw_data, page_idx, dealer_idx, validation_results,
                    intelligence, report_html, files, outbox, result, outcome,
                    stages, failures, fetches, observe, gen_locals, document >>

\* The default configuration with the homepage as its only page and the first
\* dealer as its only dealer.
PairConfig ==
    [DefaultConfig EXCEPT !.pages_to_analyze = <<"/">>,
                          !.dealers_to_track = <<DefaultDealers[1]>>]

\* Two runs of the agent started together.
PairInit ==
    /\ pc = "home"
    /\ config = PairConfig
    /\ raw_data = EmptyData
    /\ page_idx = 1
    /\ dealer_idx = 1
    /\ validation_results = Unset
    /\ intelligence = Unset
    /\ report_html = Unset
    /\ db = EmptyDb
    /\ files = {}
    /\ outbox = <<>>
    /\ result = Unset
    /\ outcome = "running"
    /\ stages = <<>>
    /\ failures = {}
    /\ fetches = <<>>
    /\ observe = FALSE
    /\ gen_locals = Unset
    /\ document = Unset
    /\ peer = [pc |-> "generate", session_id |-> Unset, outcome |-> "running"]

PairNext == Next \/ PeerGenerate \/ PeerSave

PairSpec == PairInit /\ [][PairNext]_vars

(* ================================================================ claims *)

StageOrder == << "EXTRACT", "VALIDATE", "GENERATE", "PERSIST", "RENDER", "DELIVER" >>

Validated == validation_results # Unset

\* C1: when validate_marketplace_data returns is_valid = FALSE the run is
\* over: the result returned has success = FALSE and carries the validation
\* result, and nothing of generation, persistence, rendering, the report
\* file or delivery has happened.
C1_InvalidIsTerminal ==
    (Validated /\ ~validation_results.is_valid) =>
        /\ pc = "done"
        /\ outcome = "returned"
        /\ result.success = FALSE
        /\ result.validation_results = validation_results
        /\ stages = << "EXTRACT", "VALIDATE" >>
        /\ intelligence = Unset
        /\ report_html = Unset
        /\ db = EmptyDb
        /\ files = {}
        /\ outbox = <<>>

C1_Witness ==
    /\ Validated
    /\ ~validation_results.is_valid
    /\ pc = "done"
    /\ result.success = FALSE

\* C2: the stages started are always an initial part of EXTRACT, VALIDATE,
\* GENERATE, PERSIST, RENDER, DELIVER (each at most once, none before its
\* predecessors), and a result with success = TRUE is returned only after all
\* six.
C2_StagesInOrder ==
    /\ \E n \in 0..Len(StageOrder) : stages = SubSeq(StageOrder, 1, n)
    /\ (result # Unset /\ result.success) => stages = StageOrder

C2_Witness ==
    /\ pc = "done"
    /\ result.success
    /\ stages = StageOrder

Failed(stage) == stage \in failures

Started(stage) == stage \in Range(stages)

\* The store holds exactly the rows of the session generated: one session
\* row, one marketplace row, one row per top dealer and one per insight.
SessionCommitted ==
    /\ Len(db.intelligence_sessions) = 1
    /\ db.intelligence_sessions[1].session_id = intelligence.session_id
    /\ Len(db.marketplace_intelligence) = 1
    /\ db.marketplace_intelligence[1].session_id = intelligence.session_id
    /\ Len(db.dealer_intelligence) = Len(intelligence.dealer_data)
    /\ Len(db.ai_insights) = Len(intelligence.ai_insights)

\* The report file of the session generated is on disk.
ReportWritten ==
    \E f \in files : f.name = intelligence.session_id /\ f.content = report_html

\* C3, as claimed: a run whose save_intelligence failed, and whose rendering
\* and delivery did not, still renders and delivers the report and returns
\* success = TRUE.
C3_PersistFailureTolerated ==
    (pc = "done" /\ Failed("PERSIST") /\ ~Failed("RENDER") /\ ~Failed("DELIVER")) =>
        /\ result.success = TRUE
        /\ Started("RENDER")
        /\ Started("DELIVER")

\* C3, amended: a failure of save_intelligence is a hard stop.  The store is
\* rolled back to what it held, the error reaches run_weekly_intelligence,
\* and the run ends at once with success = FALSE and an error: no report is
\* rendered, written or sent.
C3_PersistFailureIsTerminal ==
    Failed("PERSIST") =>
        /\ pc = "done"
        /\ outcome = "returned"
        /\ result.success = FALSE
        /\ "error" \in DOMAIN result
        /\ stages = << "EXTRACT", "VALIDATE", "GENERATE", "PERSIST" >>
        /\ db = EmptyDb
        /\ report_html = Unset
        /\ files = {}
        /\ outbox = <<>>

C3_Witness ==
    /\ Failed("PERSIST")
    /\ pc = "done"
    /\ intelligence # Unset

\* C4: when the send fails inside send_intelligence_report, after a
\* successful save and render, the session rows and the report file are
\* still there and the run returns success = TRUE.
C4_DeliveryFailureKeepsReport ==
    Failed("DELIVER") =>
        /\ pc = "done"
        /\ outcome = "returned"
        /\ result.success = TRUE
        /\ SessionCommitted
        /\ ReportWritten

C4_Witness ==
    /\ Failed("DELIVER")
    /\ pc = "done"
    /\ outbox = <<>>
    /\ config.recipients # <<>>

\* C5, as claimed: the result of a run in which PERSIST, RENDER or DELIVER
\* failed shows the failure: success = FALSE or an error entry.
C5_StageFailureShownInResult ==
    (pc = "done" /\ (Failed("PERSIST") \/ Failed("RENDER") \/ Failed("DELIVER"))) =>
        (result.success = FALSE \/ "error" \in DOMAIN result)

\* The run stands at a step it can take: in front of a stage, or inside one
\* of the extractor's loops with an element left.
CanStep ==
    \/ pc \in {"home", "validate", "generate", "persist", "render", "write", "deliver"}
    \/ pc = "pages" /\ page_idx <= Len(config.pages_to_analyze)
    \/ pc = "dealers" /\ dealer_idx <= Len(config.dealers_to_track)

\* C6: run_weekly_intelligence never raises.  Whatever fails, a run that is
\* not over has raised nothing and stands at a step it can take, and a run
\* that is over has returned a result with a Boolean success and, when
\* success = FALSE, an error.
C6_NeverRaises ==
    /\ outcome \in {"running", "returned"}
    /\ pc # "done" => (outcome = "running" /\ result = Unset /\ CanStep)
    /\ pc = "done" =>
         /\ outcome = "returned"
         /\ "success" \in DOMAIN result
         /\ result.success \in BOOLEAN
         /\ (~result.success => "error" \in DOMAIN result)

C6_Witness ==
    /\ pc = "done"
    /\ Failed("RENDER")
    /\ outcome = "returned"
    /\ ~result.success

HomeFetchFailed == fetches # <<>> /\ fetches[1].outcome = "error"

\* C7: when the homepage fetch fails, extract_marketplace_data returns the
\* simulation dataset (total_listings 29099, 26 prices, 5 dealers) after that
\* one fetch, the dataset passes validation, and the run goes on with it into
\* generation instead of ending; when no stage after it fails as well, the
\* run goes through all six stages and returns success = TRUE.
C7_HomeFailureUsesSimulation ==
    HomeFetchFailed =>
        /\ Len(fetches) = 1
        /\ raw_data = get_simulation_data
        /\ raw_data.total_listings = 29099
        /\ Len(raw_data.price_samples) = 26
        /\ Len(raw_data.dealer_data) = 5
        /\ outcome # "raised"
        /\ Validated => validation_results.is_valid
        /\ pc = "done" => Started("GENERATE")
        /\ intelligence # Unset =>
             intelligence.marketplace_data.total_listings = 29099
        /\ (pc = "done" /\ failures \subseteq {"DELIVER"}) =>
             (stages = StageOrder /\ result.success)

C7_Witness ==
    /\ HomeFetchFailed
    /\ pc = "done"
    /\ result.success
    /\ stages = StageOrder

\* C8: is_valid is TRUE exactly when total_listings is not 0 and the final
\* data_quality_score is at least 50, and a total_listings of 0 always puts
\* the "No ads found" error into errors.
C8_ValidIffNonZeroAndScore ==
    Validated =>
        /\ validation_results.is_valid =
             (raw_data.total_listings # 0 /\ validation_results.data_quality_score >= 50)
        /\ raw_data.total_listings = 0 =>
             "No ads found - scraping completely failed" \in Range(validation_results.errors)

\* The case the score alone does not decide: no listings, score exactly 50.
C8_Witness ==
    /\ Validated
    /\ raw_data.total_listings = 0
    /\ validation_results.data_quality_score = 50
    /\ ~validation_results.is_valid

\* The rule table of the validator: the deductions, each on its own.
TableDeduction(data) ==
    LET t == data.total_listings
        n == Len(data.price_samples)
        sum == SumSeq(data.price_samples)
    IN  (IF t = 0 THEN 50 ELSE 0)
      + (IF 0 < t /\ t < 20000 THEN 20 ELSE 0)
      + (IF t > 40000 THEN 20 ELSE 0)
      + (IF n = 0 THEN 15 ELSE 0)
      + (IF 1 <= n /\ n <= 9 THEN 10 ELSE 0)
      + (IF n >= 10 /\ (sum < 1000 * n \/ sum > 100000 * n) THEN 15 ELSE 0)
      + (IF data.dealer_data = <<>> THEN 10 ELSE 0)

CleanBatch(data) ==
    /\ 20000 <= data.total_listings /\ data.total_listings <= 40000
    /\ Len(data.price_samples) >= 10
    /\ 1000 * Len(data.price_samples) <= SumSeq(data.price_samples)
    /\ SumSeq(data.price_samples) <= 100000 * Len(data.price_samples)
    /\ data.dealer_data # <<>>

\* C9: for total_listings >= 0 the data_quality_score is 100 minus the sum of
\* the deductions of the rule table; it is never negative; and a batch with
\* total_listings in [20000, 40000], at least 10 prices with mean in
\* [1000, 100000] and a dealer scores 100, is valid and has no warning or
\* error.
C9_ScoreIsTableSum ==
    (Validated /\ raw_data.total_listings >= 0) =>
        /\ validation_results.data_quality_score = 100 - TableDeduction(raw_data)
        /\ validation_results.data_quality_score >= 0
        /\ CleanBatch(raw_data) =>
             /\ validation_results.data_quality_score = 100
             /\ validation_results.is_valid
             /\ validation_results.warnings = <<>>
             /\ validation_results.errors = <<>>

\* A batch of exactly 10 prices whose mean is too high: the mean rule, not
\* the few-samples rule, applies.
C9_Witness ==
    /\ Validated
    /\ raw_data.total_listings = 40001
    /\ Len(raw_data.price_samples) = 10
    /\ raw_data.dealer_data = <<>>
    /\ validation_results.data_quality_score = 55
    /\ validation_results.is_valid

\* C10, as claimed: the price_samples of an extraction that
\* extract_marketplace_data returned hold only values in [1000, 4000000] and
\* hold no value twice.
C10_PricesRealisticAndUnique ==
    pc \notin {"home", "pages", "dealers"} =>
    /\ \A i \in 1..Len(raw_data.price_samples) :
           1000 <= raw_data.price_samples[i] /\ raw_data.price_samples[i] <= 4000000
    /\ \A i, j \in 1..Len(raw_data.price_samples) :
           raw_data.price_samples[i] = raw_data.price_samples[j] => i = j

\* The last fetch made.
LastFetch == fetches[Len(fetches)]

\* The homepage was served, and its text is the document on record.
HomeOnRecord ==
    observe /\ Len(fetches) = 1 /\ fetches[1].outcome = "ok"

\* The patterns, by position, that match a text.
Matching(text, none) == {i \in 1..Len(text) : text[i] # none}

\* The first of them, in pattern order.
FirstMatching(text, none) ==
    CHOOSE i \in Matching(text, none) : \A j \in Matching(text, none) : i <= j

\* C11: the listing count is the number found by the first of the patterns
\* autoturisme, rezultate, anun that matches the homepage, whatever later
\* patterns find; when no pattern matches (and when the number found is 0) it
\* is the default 29099; the total_listings of an extraction is never 0 once
\* the homepage has been handled.
C11_FirstPatternOrDefault ==
    /\ HomeOnRecord =>
          IF Matching(document, NoMatch) = {}
          THEN raw_data.total_listings = 29099
          ELSE LET found == ParseGrouped(document[FirstMatching(document, NoMatch)])
               IN  raw_data.total_listings = IF found = 0 THEN 29099 ELSE found
    /\ pc # "home" => raw_data.total_listings # 0

\* The first pattern finds nothing, the second 500 and the third 25.000: the
\* count is 500.
C11_Witness ==
    /\ HomeOnRecord
    /\ document = << NoMatch, <<500>>, <<25, 0>> >>
    /\ raw_data.total_listings = 500

\* The fetches of dealer pages, in the order made.
DealerFetches ==
    SelectSeq(fetches, LAMBDA f : f.url \in Range(config.dealers_to_track))

\* Those that were served (neither 404 nor an error).
ServedDealerFetches == SelectSeq(DealerFetches, LAMBDA f : f.outcome = "ok")

\* A dealer page was served last, and its text is the document on record.
DealerOnRecord ==
    /\ observe /\ pc \in {"dealers", "validate"}
    /\ fetches # <<>>
    /\ LastFetch.url \in Range(config.dealers_to_track)
    /\ LastFetch.outcome = "ok"

IsPrefix(s, t) == Len(s) <= Len(t) /\ SubSeq(t, 1, Len(s)) = s

\* What is behind the first n elements of s.
Drop(s, n) == SubSeq(s, n + 1, Len(s))

\* The pages sampled: pages_to_analyze without "/".
SampledPages == SelectSeq(config.pages_to_analyze, LAMBDA u : u # "/")

\* The homepage was served, and the extractor is in one of its two loops.
InLoops == pc \in {"pages", "dealers"}

\* One turn of a loop of the extractor, as a step: no exception leaves it,
\* the data stays the live extraction, nothing collected so far is dropped,
\* and the loop moves on to the next page or dealer; a fetch that fails
\* changes no data at all; a page that is served adds its own realistic
\* prices, each once.
LoopTurnKeepsBatch ==
    InLoops =>
    /\ outcome' = "running" /\ result' = result
    /\ ~raw_data'.simulation_mode
    /\ raw_data'.total_listings = raw_data.total_listings
    /\ IsPrefix(raw_data.price_samples, raw_data'.price_samples)
    /\ IsPrefix(raw_data.dealer_data, raw_data'.dealer_data)
    /\ pc = "pages" => page_idx' = page_idx + 1 /\ dealer_idx' = dealer_idx
    /\ pc = "dealers" => dealer_idx' = dealer_idx + 1 /\ page_idx' = page_idx
    /\ pc' \in {"pages", "dealers", "validate"}
    /\ (fetches' # fetches /\ LastFetch'.outcome # "ok") => raw_data' = raw_data
    /\ (fetches' # fetches /\ LastFetch'.outcome = "ok" /\ pc = "pages") =>
          /\ raw_data'.dealer_data = raw_data.dealer_data
          /\ Drop(raw_data'.price_samples, Len(raw_data.price_samples))
                \in Perms(PriceSet(document'))

\* The extraction returned after the homepage was served: every sampled page
\* and every tracked dealer was fetched, once, in order.
BatchComplete ==
    (pc = "validate" /\ ~raw_data.simulation_mode) =>
    /\ outcome = "running"
    /\ [k \in 1..Len(fetches) |-> fetches[k].url]
         = <<"/">> \o SampledPages \o config.dealers_to_track

\* C13: once the homepage has been served, a failure on any of the sampled
\* pages or dealer pages costs the data of that page only: the loops go on
\* over every remaining page and dealer, what was collected stays, the result
\* is the live extraction and no exception is raised.
C13_BadPageDoesNotAbort == [][LoopTurnKeepsBatch]_vars /\ []BatchComplete

\* The first sampled page and the first dealer page fail, the pages after
\* them are served: the extraction returned is live and holds the prices of
\* the later page and the record of the later dealer.
C13_Witness ==
    /\ pc = "validate" /\ observe
    /\ [k \in 1..Len(fetches) |-> fetches[k].outcome]
         = <<"ok", "error", "ok", "error", "ok">>
    /\ ~raw_data.simulation_mode
    /\ raw_data.price_samples = <<1000, 4000000>>
    /\ Len(raw_data.dealer_data) = 1

\* generate_ai_intelligence has returned in a run that records its locals.
Generated == observe /\ intelligence # Unset /\ gen_locals # Unset

\* The place of a candidate's rule in the order of evaluation.
RuleOf(insight) ==
    CASE insight.type = "market_trend" -> 1
      [] insight.type = "pricing_strategy" -> 2
      [] insight.type = "competitive_intelligence" -> 3
      [] insight.type = "market_opportunity" -> 4
      [] insight.type = "prediction" -> 5

\* C14: ai_insights is the candidate list, which stands in rule order,
\* restricted to the candidates with confidence >= threshold and cut to its
\* first max_insights_per_report elements: every insight returned reaches the
\* threshold, there are never more than max_insights_per_report, and none is
\* moved.
C14_FilterThenTruncate ==
    Generated =>
    LET threshold == config.intelligence.insight_confidence_threshold
        limit     == config.intelligence.max_insights_per_report
        kept      == intelligence.ai_insights
        eligible  == SelectSeq(gen_locals.insights,
                               LAMBDA i : i.confidence >= threshold)
    IN  /\ \A j, k \in 1..Len(gen_locals.insights) :
              j < k => RuleOf(gen_locals.insights[j]) < RuleOf(gen_locals.insights[k])
        /\ \A k \in 1..Len(kept) : kept[k].confidence >= threshold
        /\ Len(kept) <= limit
        /\ Len(kept) = IF limit < Len(eligible) THEN limit ELSE Len(eligible)
        /\ \A k \in 1..Len(kept) : kept[k] = eligible[k]

\* Five candidates, a threshold of 0.90 and a limit of 2: the two returned
\* are the first and the third candidate, the only ones over the threshold.
C14_Witness ==
    /\ Generated
    /\ Len(gen_locals.insights) = 5
    /\ config.intelligence = [insight_confidence_threshold |-> 90,
                              max_insights_per_report |-> 2]
    /\ intelligence.ai_insights = << gen_locals.insights[1], gen_locals.insights[3] >>

\* The prices the rules are evaluated on.
RulePrices == IF raw_data.price_samples = <<>> THEN <<40000>> ELSE raw_data.price_samples

\* The predicates of the five rules, on the extraction and the week read.
RuleHolds(k) ==
    LET p == RulePrices
    IN  CASE k = 1 -> 100 * Cardinality({i \in DOMAIN p : p[i] >= 100000}) > 25 * Len(p)
          [] k = 2 -> SumSeq(p) > 100000 * Len(p)
          [] k = 3 -> raw_data.dealer_data # <<>>
          [] k = 4 -> 100 * Cardinality({i \in DOMAIN p : 29000 <= p[i] /\ p[i] < 40000})
                        < 25 * Len(p)
          [] k = 5 -> gen_locals.current_week % 4 = 0

\* The confidence, in hundredths, and the impact each rule gives its insight.
RuleConfidence == <<92, 89, 95, 83, 76>>
RuleImpact == <<"high", "high", "medium", "medium", "low">>

\* C15: each rule contributes a candidate exactly when its own predicate
\* holds, whatever the other four do, and with its own confidence and impact:
\* the candidates are one insight for each rule whose predicate holds.
C15_RulesIndependent ==
    Generated =>
    /\ \A k \in 1..5 :
          RuleHolds(k) <=>
            \E c \in DOMAIN gen_locals.insights :
               /\ RuleOf(gen_locals.insights[c]) = k
               /\ gen_locals.insights[c].confidence = RuleConfidence[k]
               /\ gen_locals.insights[c].impact = RuleImpact[k]
    /\ Len(gen_locals.insights) = Cardinality({k \in 1..5 : RuleHolds(k)})

\* An average over 100000 with one luxury price in four, no dealer record
\* and a week not divisible by 4: rules 2 and 4 alone give a candidate.
C15_Witness ==
    /\ Generated
    /\ raw_data.price_samples = <<400000, 28999, 28999, 28999>>
    /\ raw_data.dealer_data = <<>>
    /\ gen_locals.current_week = 43
    /\ [c \in DOMAIN gen_locals.insights |-> RuleOf(gen_locals.insights[c])] = <<2, 4>>

\* Record i stands before record j in the descending order by listing_count
\* that keeps equal counts in extraction order.
Before(s, i, j) ==
    \/ s[i].listing_count > s[j].listing_count
    \/ s[i].listing_count = s[j].listing_count /\ i < j

\* The position in s of the record that stands at place r of that order.
AtRank(s, r) ==
    CHOOSE i \in DOMAIN s : Cardinality({j \in DOMAIN s : Before(s, j, i)}) = r - 1

\* C16, as claimed: the dealer_data of the generated intelligence is the
\* first min(5, n) of the n extracted dealer records in descending order of
\* listing_count.
C16_TopFiveDealers ==
    Generated =>
    LET s == raw_data.dealer_data
        d == intelligence.dealer_data
    IN  /\ Len(d) = IF Len(s) < 5 THEN Len(s) ELSE 5
        /\ \A r \in 1..Len(d) : d[r] = s[AtRank(s, r)]

\* C17: the dealer_data of the generated intelligence is a beginning, at
\* most 5 long, of the extracted dealer records in descending order of
\* listing_count with equal counts in extraction order; the leader the rule-3
\* insight names is the first record of that order: no record has more
\* listings, and none with as many was extracted before it.
C17_StablePrefixAndLeader ==
    Generated =>
    LET s == raw_data.dealer_data
        d == intelligence.dealer_data
    IN  /\ Len(d) <= 5 /\ Len(d) <= Len(s)
        /\ \A r \in 1..Len(d) : d[r] = s[AtRank(s, r)]
        /\ \A c \in DOMAIN gen_locals.insights :
              RuleOf(gen_locals.insights[c]) = 3 =>
                \E i \in DOMAIN s :
                   /\ gen_locals.insights[c].leader = s[i].name
                   /\ \A j \in DOMAIN s : s[j].listing_count <= s[i].listing_count
                   /\ \A j \in 1..(i - 1) : s[j].listing_count < s[i].listing_count
                   /\ d[1] = s[i]

\* Three records with 194, 537 and 537 listings: the second leads, and the
\* third follows it.
C17_Witness ==
    /\ Generated
    /\ [k \in DOMAIN raw_data.dealer_data |-> raw_data.dealer_data[k].listing_count]
         = <<194, 537, 537>>
    /\ intelligence.dealer_data =
         << raw_data.dealer_data[2], raw_data.dealer_data[3], raw_data.dealer_data[1] >>
    /\ \E c \in DOMAIN gen_locals.insights :
          gen_locals.insights[c].leader = raw_data.dealer_data[2].name

\* The k-th smallest element of p, counted from 1 and with repetitions:
\* fewer than k elements are smaller, at least k are no larger.
KthSmallest(p, k) ==
    CHOOSE m \in Range(p) :
        /\ Cardinality({i \in DOMAIN p : p[i] < m}) < k
        /\ Cardinality({i \in DOMAIN p : p[i] <= m}) >= k

\* C18: for a price_samples that is not empty, the median reported is the
\* element at index len // 2, counted from 0, of the samples in ascending
\* order; for the samples 1, 2, 3, 4, in any order, it is 3.
C18_MedianIsIndexHalf ==
    (Generated /\ raw_data.price_samples # <<>>) =>
    LET p == raw_data.price_samples
        m == intelligence.marketplace_data.pricing.median
    IN  /\ m = KthSmallest(p, (Len(p) \div 2) + 1)
        /\ (Len(p) = 4 /\ Range(p) = {1, 2, 3, 4}) => m = 3

\* The samples 4, 1, 3, 2 have the median 3.
C18_Witness ==
    /\ Generated
    /\ raw_data.price_samples = <<4, 1, 3, 2>>
    /\ intelligence.marketplace_data.pricing.median = 3

\* C19, as claimed: for a price_samples of even length the median reported
\* is the lower of the two middle elements of the samples in ascending order.
C19_MedianLowerOfMiddleTwo ==
    (Generated /\ raw_data.price_samples # <<>> /\ Len(raw_data.price_samples) % 2 = 0) =>
    intelligence.marketplace_data.pricing.median
      = KthSmallest(raw_data.price_samples, Len(raw_data.price_samples) \div 2)

\* C19, amended: for a price_samples of even length the median reported is
\* the upper of the two middle elements of the samples in ascending order.
C19_MedianUpperOfMiddleTwo ==
    (Generated /\ raw_data.price_samples # <<>> /\ Len(raw_data.price_samples) % 2 = 0) =>
    LET p  == raw_data.price_samples
        lo == KthSmallest(p, Len(p) \div 2)
        hi == KthSmallest(p, (Len(p) \div 2) + 1)
    IN  /\ lo <= hi
        /\ intelligence.marketplace_data.pricing.median = hi

\* Two samples, 29000 and 100000 in this order: the median is 100000.
C19_Witness ==
    /\ Generated
    /\ raw_data.price_samples = <<29000, 100000>>
    /\ intelligence.marketplace_data.pricing.median = 100000

\* generate_ai_intelligence has returned on the simulation dataset.
GeneratedOnSimulation == raw_data.simulation_mode /\ intelligence # Unset

\* C20: on the simulation dataset (29099 listings, 26 prices, 5 dealers)
\* generate_ai_intelligence reports, every time, a luxury_percentage of
\* 6/26 * 100, there being exactly 6 prices of 100000 or more, and returns
\* the leadership insight naming autorulateleasing with a market share
\* within 0.01 of 1.846, which is 537/29099 * 100.
C20_SimulationEndToEnd ==
    GeneratedOnSimulation =>
    LET pricing == intelligence.marketplace_data.pricing
        prices  == raw_data.price_samples
    IN  /\ raw_data.total_listings = 29099
        /\ Len(prices) = 26 /\ Len(raw_data.dealer_data) = 5
        /\ Cardinality({i \in DOMAIN prices : prices[i] >= 100000}) = 6
        /\ pricing.luxury_percentage.num * 26 = 600 * pricing.luxury_percentage.den
        /\ 2307 * pricing.luxury_percentage.den <= 100 * pricing.luxury_percentage.num
        /\ 100 * pricing.luxury_percentage.num <= 2308 * pricing.luxury_percentage.den
        /\ \E k \in DOMAIN intelligence.ai_insights :
              LET i == intelligence.ai_insights[k]
              IN  /\ i.type = "competitive_intelligence"
                  /\ i.leader = "autorulateleasing"
                  /\ i.market_share.num * 29099 = 53700 * i.market_share.den
                  /\ 1836 * i.market_share.den <= 1000 * i.market_share.num
                  /\ 1000 * i.market_share.num <= 1856 * i.market_share.den

\* The homepage could not be fetched, and the run on the simulation dataset
\* came to its end with the leadership insight in its session.
C20_Witness ==
    /\ pc = "done" /\ result.success
    /\ HomeFetchFailed
    /\ GeneratedOnSimulation
    /\ \E k \in DOMAIN intelligence.ai_insights :
          intelligence.ai_insights[k].type = "competitive_intelligence"

\* The average reported, rounded to the nearest integer, is n.
AverageRoundsTo(n) ==
    LET a == intelligence.marketplace_data.pricing.average
    IN  (2 * n - 1) * a.den <= 2 * a.num /\ 2 * a.num < (2 * n + 1) * a.den

\* C21, as claimed: on the simulation dataset the average price reported is
\* about 85,635: it rounds to 85635.
C21_SimulationAverage85635 == GeneratedOnSimulation => AverageRoundsTo(85635)

\* C21, amended: on the simulation dataset the average price reported is the
\* sum of the 26 listed prices, 2084183, divided by 26, about 80,161: it
\* rounds to 80161.
C21_SimulationAverage80161 ==
    GeneratedOnSimulation =>
    LET a == intelligence.marketplace_data.pricing.average
    IN  /\ a.num * 26 = 2084183 * a.den
        /\ AverageRoundsTo(80161)

\* The run on the simulation dataset has generated its session, with 26
\* samples behind the average.
C21_Witness ==
    /\ GeneratedOnSimulation
    /\ intelligence.marketplace_data.pricing.sample_size = 26
    /\ AverageRoundsTo(80161)

\* Both runs have named their sessions.
BothGenerated == intelligence # Unset /\ peer.session_id # Unset

\* C22, as claimed: two runs that generate their sessions concurrently get
\* different session_ids, and the sessions table never refuses the session of
\* one because of the other.
C22_DistinctSessionIds ==
    /\ BothGenerated => intelligence.session_id # peer.session_id
    /\ pc = "persist" => ~Duplicate(db, intelligence.session_id)
    /\ peer.pc = "persist" => ~Duplicate(db, peer.session_id)

\* The rows of table t that carry the session_id.
RowsOf(d, t, session_id) == { k \in DOMAIN d[t] : d[t][k].session_id = session_id }

\* save_intelligence of this run returns normally in this step: table by
\* table, the store gains the rows of the session behind those it held, and
\* holds for the session_id one session row, one marketplace row, one row per
\* top dealer, in order, and one row per insight, in order.
SaveReturnsComplete ==
    (pc = "persist" /\ pc' = "render") =>
    LET sid == intelligence.session_id
    IN  /\ \A t \in DOMAIN db : IsPrefix(db[t], db'[t])
        /\ \A t \in DOMAIN db :
              \A k \in (DOMAIN db'[t]) \ (DOMAIN db[t]) : db'[t][k].session_id = sid
        /\ Cardinality(RowsOf(db', "intelligence_sessions", sid)) = 1
        /\ Cardinality(RowsOf(db', "marketplace_intelligence", sid)) = 1
        /\ LET at == Len(db.dealer_intelligence)
           IN  /\ Cardinality(RowsOf(db', "dealer_intelligence", sid))
                     = Len(intelligence.dealer_data)
               /\ \A k \in DOMAIN intelligence.dealer_data :
                     db'.dealer_intelligence[at + k].dealer_name
                         = intelligence.dealer_data[k].name
        /\ LET at == Len(db.ai_insights)
           IN  /\ Cardinality(RowsOf(db', "ai_insights", sid))
                     = Len(intelligence.ai_insights)
               /\ \A k \in DOMAIN intelligence.ai_insights :
                     db'.ai_insights[at + k].title = intelligence.ai_insights[k].title

\* save_intelligence of this run fails in this step: the store is what it
\* was, and the error has reached run_weekly_intelligence, which ends the run.
SaveFailsClean ==
    (pc = "persist" /\ pc' = "done") =>
        /\ db' = db
        /\ "PERSIST" \in failures'
        /\ result'.success = FALSE
        /\ "error" \in DOMAIN result'

\* C23: save_intelligence writes a session all or nothing.  When it returns
\* normally the store holds, for the session_id, exactly one session row, one
\* marketplace row, one dealer row per top dealer and one insight row per
\* insight; when one of its statements fails the store holds nothing the call
\* wrote and the error reaches the caller.
C23_SaveAllOrNothing == [][SaveReturnsComplete /\ SaveFailsClean]_vars

\* The run saved its session beside the session the other run had saved, and
\* the store holds the rows of both.
C23_Witness ==
    /\ Started("PERSIST") /\ ~Failed("PERSIST")
    /\ peer.outcome = "saved"
    /\ Len(db.intelligence_sessions) = 2
    /\ db.intelligence_sessions[1].session_id = peer.session_id
    /\ db.intelligence_sessions[2].session_id = intelligence.session_id
    /\ Len(db.ai_insights) > Len(intelligence.ai_insights)

\* C24, as claimed: within one extraction the pacing delay separates every
\* two consecutive fetches, whatever the outcome of the earlier one: every
\* fetch that has a successor was followed by the 2-second sleep.
C24_DelayBetweenFetches ==
    \A k \in 1..(Len(fetches) - 1) : fetches[k].slept

\* extract_marketplace_data has returned its extraction.
Extracted == pc \notin { "home", "pages", "dealers" }

\* C25: every extraction extract_marketplace_data returns passes validation.
\* Its total_listings is not 0, the validator takes at most 45 points off, so
\* the score is at least 55 and is_valid is TRUE, and no run ends on the
\* branch of run_weekly_intelligence that returns the validation failure.
C25_ExtractionAlwaysValid ==
    /\ Extracted => raw_data.total_listings # 0
    /\ Validated =>
          /\ validation_results.is_valid
          /\ validation_results.data_quality_score >= 55
          /\ validation_results.errors = <<>>
          /\ Started("GENERATE") \/ pc = "generate"
    /\ result # Unset => "validation_results" \notin DOMAIN result

\* A live extraction that loses the most the validator can take off: a
\* total below the expected range, no prices and no dealers.
C25_Witness ==
    /\ Validated
    /\ ~raw_data.simulation_mode
    /\ raw_data.price_samples = <<>>
    /\ raw_data.dealer_data = <<>>
    /\ validation_results.data_quality_score = 55
    /\ Started("GENERATE")

\* The session was generated under the default thresholds: confidence 0.80,
\* at most 12 insights.
GeneratedByDefault ==
    /\ intelligence # Unset
    /\ config.intelligence.insight_confidence_threshold = 80
    /\ config.intelligence.max_insights_per_report = 12

\* C26: under the default thresholds the seasonal prediction is never among
\* the insights returned, and the session returned is the one the same raw
\* data gives in every other ISO week, the session_id aside: the insights,
\* the aggregates and the summary do not depend on the week.
C26_WeekDoesNotShow ==
    GeneratedByDefault =>
        /\ \A k \in DOMAIN intelligence.ai_insights :
              /\ intelligence.ai_insights[k].type # "prediction"
              /\ intelligence.ai_insights[k].confidence # 76
        /\ \A week \in IsoWeeks :
              generate_ai_intelligence(raw_data, week, intelligence.session_id, config)
                  = intelligence

\* A session generated under the default thresholds in a week divisible by 4:
\* the seasonal prediction was a candidate and is not among the insights.
C26_Witness ==
    /\ Generated
    /\ GeneratedByDefault
    /\ gen_locals.current_week % 4 = 0
    /\ \E k \in DOMAIN gen_locals.insights : gen_locals.insights[k].type = "prediction"
    /\ intelligence.ai_insights # <<>>
    /\ \A k \in DOMAIN intelligence.ai_insights :
          intelligence.ai_insights[k].type # "prediction"

\* The candidates of the last generate_ai_intelligence call that rule k added.
CandidatesOf(k) ==
    { i \in DOMAIN gen_locals.insights : RuleOf(gen_locals.insights[i]) = k }

\* C27: on an empty price_samples the aggregates are those of the single
\* price 40000: average 40000, median 40000, luxury_percentage 0 and
\* sample_size 1; rules 1 and 2 add no candidate and rule 4 adds its
\* 'Mid-Range Market Gap' candidate.  On a non-empty price_samples
\* sample_size is the number of samples.
C27_EmptySampleFallback ==
    LET pricing == intelligence.marketplace_data.pricing
    IN  /\ (Generated /\ raw_data.price_samples = <<>>) =>
              /\ pricing.average.num = 40000 * pricing.average.den
              /\ pricing.median = 40000
              /\ pricing.luxury_percentage.num = 0
              /\ pricing.sample_size = 1
              /\ CandidatesOf(1) = {}
              /\ CandidatesOf(2) = {}
              /\ Cardinality(CandidatesOf(4)) = 1
              /\ \A i \in CandidatesOf(4) :
                    gen_locals.insights[i].title = "Mid-Range Market Gap"
        /\ (intelligence # Unset /\ raw_data.price_samples # <<>>) =>
              pricing.sample_size = Len(raw_data.price_samples)

\* A session generated from an extraction without prices, whose rule-4
\* candidate passed the threshold and was returned.
C27_Witness ==
    /\ Generated
    /\ raw_data.price_samples = <<>>
    /\ intelligence.marketplace_data.pricing.sample_size = 1
    /\ CandidatesOf(4) # {}
    /\ \E k \in DOMAIN intelligence.ai_insights :
          intelligence.ai_insights[k].title = "Mid-Range Market Gap"

====
